---- MODULE Spec2Model ----
(***************************************************************************)
(* Model of src/src/components/RestaurantMap.tsx: the enrichment pipeline  *)
(* (processRestaurants and its helpers) and the map-update handler that    *)
(* starts it.  One step of the model is one synchronous segment of the     *)
(* JavaScript code: everything a handler does between two awaits happens   *)
(* atomically (React batches the setState calls of a segment), and an      *)
(* await on an external call is a point where other handlers interleave.   *)
(* The component is modelled while it is mounted (mapInstance.current is   *)
(* set).                                                                   *)
(***************************************************************************)
EXTENDS Integers, Sequences, FiniteSets

\* ------------------------------------------------------------------ bounds
MaxUpdates == 2      \* map updates (handleMapUpdate invocations) per behaviour
MaxPois == 2         \* restaurants a POI search can return
MaxTicks == 1        \* hour changes of the wall clock per behaviour
MaxWays == 2         \* ways a road search can return
MaxVertices == 2     \* vertices of the geometry of a way

\* ------------------------------------------------------- program constants
MIN_ZOOM_LEVEL == 14
CLOUD_THRESHOLD == 20
TERRACE_DISTANCE == 5

Runs == 1..MaxUpdates

\* ------------------------------------------------------------- geodesy
\* A coordinate is a grid point plus an optional displacement <<bearing,
\* metres>>; off = <<>> is the grid point itself.
Point(lat, lng) == [lat |-> lat, lng |-> lng, off |-> <<>>]

Sign(x) == IF x > 0 THEN 1 ELSE IF x < 0 THEN -1 ELSE 0

\* atan2(x, y) abstracted to the compass direction of (to - from): the sign of
\* x is the sign of dLng and the sign of y the sign of dLat; coincident points
\* give atan2(0, 0) = 0, which is the bearing of due north.
calculateBearing(lat1, lng1, lat2, lng2) ==
  LET dx == Sign(lng2 - lng1)
      dy == Sign(lat2 - lat1)
  IN IF dx = 0 /\ dy = 0 THEN <<1, 0>> ELSE <<dy, dx>>

\* Destination point: the origin displaced by distance along bearing; a zero
\* distance gives the origin back.
calculateNewCoords(lat, lng, bearing, distance) ==
  IF distance = 0 THEN Point(lat, lng)
  ELSE [lat |-> lat, lng |-> lng, off |-> <<bearing, distance>>]

\* ------------------------------------------------------ fetchRestaurants
\* An Overpass element; name = "" stands for an element without tags.name.
Element(k) == [id |-> k, lat |-> 10 * k, lon |-> 10 * k + 3,
               name |-> IF k % 2 = 0 THEN "" ELSE "cafe"]

\* element.id.toString(): the decimal digits of the id, least significant last.
RECURSIVE Digits(_)
Digits(n) == IF n < 10 THEN <<n>> ELSE Append(Digits(n \div 10), n % 10)
idToString(n) == Digits(n)

MapElement(e) ==
  [id |-> idToString(e.id), lat |-> e.lat, lng |-> e.lon,
   name |-> IF e.name = "" THEN "Unknown Restaurant" ELSE e.name]

\* The POI search: a failed request is reported and becomes the empty list.
fetchRestaurants(resp) ==
  IF resp.kind = "ok"
  THEN [k \in 1..Len(resp.elements) |-> MapElement(resp.elements[k])]
  ELSE <<>>

\* ------------------------------------------------------- findNearestRoad
Sq(x) == x * x

\* Math.sqrt is monotone, so squared distances compare as the distances do.
Distance2(point, lat, lng) == Sq(point.lat - lat) + Sq(point.lon - lng)

\* ScanGeometry with <= for <: among equal distances the last vertex wins.
RECURSIVE ScanGeometry_LastWins(_, _, _, _, _)
ScanGeometry_LastWins(geometry, k, lat, lng, acc) ==
  IF k > Len(geometry) THEN acc
  ELSE LET d == Distance2(geometry[k], lat, lng)
           next == IF acc.inf \/ d <= acc.min
                   THEN [pt |-> Point(geometry[k].lat, geometry[k].lon),
                         min |-> d, inf |-> FALSE]
                   ELSE acc
       IN ScanGeometry_LastWins(geometry, k + 1, lat, lng, next)

\* acc = [pt, min, inf]: closestPoint, minDistance, and minDistance = Infinity.
RECURSIVE ScanGeometry(_, _, _, _, _)
ScanGeometry(geometry, k, lat, lng, acc) ==
  IF k > Len(geometry) THEN acc
  ELSE LET d == Distance2(geometry[k], lat, lng)
           next == IF acc.inf \/ d < acc.min
                   THEN [pt |-> Point(geometry[k].lat, geometry[k].lon),
                         min |-> d, inf |-> FALSE]
                   ELSE acc
       IN ScanGeometry(geometry, k + 1, lat, lng, next)

RECURSIVE ScanWays(_, _, _, _, _)
ScanWays(elements, k, lat, lng, acc) ==
  IF k > Len(elements) THEN acc
  ELSE ScanWays(elements, k + 1, lat, lng,
                IF elements[k].hasGeometry
                THEN ScanGeometry(elements[k].geometry, 1, lat, lng, acc)
                ELSE acc)

findNearestRoad(lat, lng, resp) ==
  IF resp.kind # "ok" THEN Point(lat, lng)
  ELSE IF Len(resp.elements) = 0 THEN Point(lat, lng)
  ELSE ScanWays(resp.elements, 1, lat, lng,
                [pt |-> Point(lat, lng), min |-> 0, inf |-> TRUE]).pt

\* -------------------------------------------------------- getWeatherData
\* data.current?.cloudcover || 0; a request that fails gives cloudcover 0.
getWeatherData(resp) ==
  IF resp.kind = "ok" /\ resp.hasValue THEN resp.cloudcover ELSE 0

\* cloudStatusOf with >= for >.
cloudStatusOf_AtLeast(cloudcover) ==
  IF cloudcover >= CLOUD_THRESHOLD THEN "cloudy" ELSE "not_cloudy"

cloudStatusOf(cloudcover) ==
  IF cloudcover > CLOUD_THRESHOLD THEN "cloudy" ELSE "not_cloudy"

\* sunnyStatusOf with "or" for "and".
sunnyStatusOf_Or(shade, cloud) ==
  IF shade = "no_shade" \/ cloud = "not_cloudy" THEN "sunny" ELSE "not_sunny"

sunnyStatusOf(shade, cloud) ==
  IF shade = "no_shade" /\ cloud = "not_cloudy" THEN "sunny" ELSE "not_sunny"

\* ----------------------------------------------------- checkShadowStatus
IsNight(h) == h < 6 \/ h > 20

\* The catch branch: the time-of-day heuristic.
FallbackShade(h) == IF h < 9 \/ h > 17 THEN "shade" ELSE "no_shade"

\* The part of checkShadowStatus before the oracle call: "call" when
\* getShadowInfo is to be called, else the value returned at once.
ShadowBeforeCall(simulator, h) ==
  IF simulator = "null" THEN "no_shade"
  ELSE IF IsNight(h) THEN "shade"
  ELSE "call"

\* The part after the oracle call returned or threw; h is the hour read in
\* the catch branch.
ShadowAfterCall(outcome, h) ==
  IF outcome = "throws" THEN FallbackShade(h)
  ELSE IF outcome = "in_shadow" THEN "shade"
  ELSE "no_shade"

\* ---------------------------------------------------- processRestaurants
Enriched(restaurant, terrace, shade, cloud, sunny) ==
  [id |-> restaurant.id, lat |-> restaurant.lat, lng |-> restaurant.lng,
   name |-> restaurant.name, terraceCoords |-> terrace,
   shadeStatus |-> shade, cloudStatus |-> cloud, sunnyStatus |-> sunny]

\* FailureRecord with the sunny status derived from the other two defaults.
FailureRecord_Derived(restaurant) ==
  Enriched(restaurant, Point(restaurant.lat, restaurant.lng),
           "no_shade", "not_cloudy", "sunny")

\* The record pushed by the catch branch of the loop body.
FailureRecord(restaurant) ==
  Enriched(restaurant, Point(restaurant.lat, restaurant.lng),
           "no_shade", "not_cloudy", "not_sunny")

\* The record pushed at the end of the try branch.
SuccessRecord(restaurant, terrace, shade, cloudcover) ==
  Enriched(restaurant, terrace, shade, cloudStatusOf(cloudcover),
           sunnyStatusOf(shade, cloudStatusOf(cloudcover)))

\* ProgressAt off by one.
ProgressAt_OffByOne(j) == j + 2

\* setProcessedCount(i + 1), i the zero-based loop index.
ProgressAt(j) == j + 1

NoCoords == Point(0, 0)

VARIABLES
  restaurants,          \* useState: the published list
  currentZoom,          \* useState
  isLoading,            \* useState
  processedCount,       \* useState
  totalCount,           \* useState
  shadowSimulator,      \* shadowSimulator.current: "ready" or "null"
  hour,                 \* new Date().getHours()
  ticks,                \* hour changes so far
  started,              \* handleMapUpdate invocations so far
  pc,                   \* per invocation: where it is suspended
  zoom,                 \* per invocation: the zoom it read
  restaurantData,       \* per invocation: the POI list
  i,                    \* per run: the loop index
  processedRestaurants, \* per run: the local result list
  terraceCoords,        \* per run: local of the loop body
  shadeStatus,          \* per run: local of the loop body ("none" when unset)
  now,                  \* per run: the hour at which checkShadowStatus was called
  shadowInfo,           \* per run: outcome of the oracle call of this record
  weatherResponse,      \* per run: the weather response of this record
  errorLog,             \* per run: loop indexes whose catch branch ran
  runOrder,             \* the runs in the order processRestaurants was called
  toast,                \* per invocation: the notifications it raised
  roadQuery,            \* a call of findNearestRoad: its arguments and response
  closestPoint          \* the value that call returned

vars == <<restaurants, currentZoom, isLoading, processedCount, totalCount,
          shadowSimulator, hour, ticks, started, pc, zoom, restaurantData, i,
          processedRestaurants, terraceCoords, shadeStatus, now, shadowInfo,
          weatherResponse, errorLog, runOrder, toast, roadQuery, closestPoint>>

reactState == <<restaurants, currentZoom, isLoading, processedCount, totalCount>>
clock == <<hour, ticks>>
recordLocals == <<terraceCoords, shadeStatus, now, shadowInfo, weatherResponse>>
roadCall == <<roadQuery, closestPoint>>

\* A run of processRestaurants is under way: it awaits a step, or ("loop") it
\* is at the loop test inside a synchronous segment.
Awaiting == {"road", "shadow", "weather", "delay"}
InFlight == Awaiting \cup {"loop"}

NoWeather == [kind |-> "none", hasValue |-> FALSE, cloudcover |-> 0]

\* ------------------------------------------------------------ input sets
Restaurant(k) == MapElement(Element(k))

\* The elements of a viewport: a window of the nodes, in response order.
Window(a, b) == [k \in 1..(b - a + 1) |-> Element(a + k - 1)]

Windows == {Window(a, b) : a \in 1..MaxPois, b \in 1..MaxPois} \ {<<>>}

Reversed(s) == [k \in 1..Len(s) |-> s[Len(s) + 1 - k]]

OverpassResponses ==
  {[kind |-> "ok", elements |-> w] : w \in Windows \cup {<<>>}}
  \cup {[kind |-> k, elements |-> <<>>] : k \in {"network_error", "not_ok"}}

\* Argument lists of a direct call of processRestaurants.
RestaurantLists ==
  {fetchRestaurants([kind |-> "ok", elements |-> w]) :
     w \in Windows \cup {Reversed(w) : w \in Windows} \cup {<<>>}}

Way(geometry) == [hasGeometry |-> TRUE, geometry |-> geometry]
Vertex(lat, lon) == [lat |-> lat, lon |-> lon]

\* Road responses for a restaurant at (lat, lng).
RoadResponses(lat, lng) ==
  { [kind |-> "network_error", elements |-> <<>>],
    [kind |-> "not_ok", elements |-> <<>>],
    [kind |-> "ok", elements |-> <<>>],
    [kind |-> "ok", elements |->
       <<Way(<<Vertex(lat + 2, lng), Vertex(lat, lng - 1)>>)>>] }

OracleOutcomes == {"in_shadow", "not_in_shadow", "empty", "throws"}

WeatherOk(c) == [kind |-> "ok", hasValue |-> TRUE, cloudcover |-> c]

WeatherFailures ==
  { [kind |-> "network_error", hasValue |-> FALSE, cloudcover |-> 0],
    [kind |-> "not_ok", hasValue |-> FALSE, cloudcover |-> 0],
    [kind |-> "ok", hasValue |-> FALSE, cloudcover |-> 0] }

WeatherResponses == WeatherFailures \cup {WeatherOk(c) : c \in {0, 20, 21}}

AllWeatherResponses == WeatherFailures \cup {WeatherOk(c) : c \in 0..100}

Zooms == {13, 14}

\* --------------------------------------------------------------- initial
InitWith(hours, simulators) ==
  /\ restaurants = <<>>
  /\ currentZoom = 10
  /\ isLoading = FALSE
  /\ processedCount = 0
  /\ totalCount = 0
  /\ shadowSimulator \in simulators
  /\ hour \in hours
  /\ ticks = 0
  /\ started = 0
  /\ pc = [r \in Runs |-> "idle"]
  /\ zoom = [r \in Runs |-> 0]
  /\ restaurantData = [r \in Runs |-> <<>>]
  /\ i = [r \in Runs |-> 0]
  /\ processedRestaurants = [r \in Runs |-> <<>>]
  /\ terraceCoords = [r \in Runs |-> NoCoords]
  /\ shadeStatus = [r \in Runs |-> "none"]
  /\ now = [r \in Runs |-> 0]
  /\ shadowInfo = [r \in Runs |-> "none"]
  /\ weatherResponse = [r \in Runs |-> NoWeather]
  /\ errorLog = [r \in Runs |-> {}]
  /\ runOrder = <<>>
  /\ toast = [r \in Runs |-> <<>>]

\* No call of findNearestRoad is observed on its own.
NoRoadCall ==
  /\ roadQuery = <<>>
  /\ closestPoint = <<>>

\* ---------------------------------------------------------------- actions
\* JavaScript runs a segment to completion: while a run is inside a segment
\* (at "loop") no other handler runs.
Quiescent == \A q \in Runs : pc[q] # "loop"

ClearLocals(r) ==
  /\ terraceCoords' = [terraceCoords EXCEPT ![r] = NoCoords]
  /\ shadeStatus' = [shadeStatus EXCEPT ![r] = "none"]
  /\ now' = [now EXCEPT ![r] = 0]
  /\ shadowInfo' = [shadowInfo EXCEPT ![r] = "none"]
  /\ weatherResponse' = [weatherResponse EXCEPT ![r] = NoWeather]

\* processRestaurants(data) up to the first loop test.
BeginRun(r, data) ==
  /\ restaurantData' = [restaurantData EXCEPT ![r] = data]
  /\ isLoading' = TRUE
  /\ processedCount' = 0
  /\ totalCount' = Len(data)
  /\ processedRestaurants' = [processedRestaurants EXCEPT ![r] = <<>>]
  /\ i' = [i EXCEPT ![r] = 0]
  /\ errorLog' = [errorLog EXCEPT ![r] = {}]
  /\ pc' = [pc EXCEPT ![r] = "loop"]
  /\ runOrder' = Append(runOrder, r)
  /\ ClearLocals(r)
  /\ UNCHANGED restaurants

\* A direct call of processRestaurants.
CallProcessRestaurants(data) ==
  /\ Quiescent
  /\ started < MaxUpdates
  /\ started' = started + 1
  /\ zoom' = [zoom EXCEPT ![started + 1] = currentZoom]
  /\ BeginRun(started + 1, data)
  /\ UNCHANGED <<currentZoom, shadowSimulator, roadCall, toast, clock>>

\* Publish without setIsLoading(false).
Publish_StillLoading(r) ==
  /\ restaurants' = processedRestaurants[r]
  /\ processedCount' = 0
  /\ totalCount' = 0
  /\ pc' = [pc EXCEPT ![r] = "done"]
  /\ UNCHANGED isLoading

\* Publish with a result list shared by all runs: the list of the first run.
Publish_SharedList(r) ==
  /\ restaurants' = processedRestaurants[runOrder[1]]
  /\ isLoading' = FALSE
  /\ processedCount' = 0
  /\ totalCount' = 0
  /\ pc' = [pc EXCEPT ![r] = "done"]

\* After the loop: the results are published and the progress state reset.
Publish(r) ==
  /\ restaurants' = processedRestaurants[r]
  /\ isLoading' = FALSE
  /\ processedCount' = 0
  /\ totalCount' = 0
  /\ pc' = [pc EXCEPT ![r] = "done"]

\* The head of an iteration: the counter is set and the road search issued.
Iterate(r) ==
  /\ processedCount' = ProgressAt(i[r])
  /\ pc' = [pc EXCEPT ![r] = "road"]
  /\ UNCHANGED <<restaurants, isLoading, totalCount>>

\* The loop test i < restaurantData.length and what follows it.
LoopHead(r) ==
  /\ pc[r] = "loop"
  /\ IF i[r] < Len(restaurantData[r]) THEN Iterate(r) ELSE Publish(r)
  /\ UNCHANGED <<currentZoom, shadowSimulator, roadCall, toast, clock,
                 started, zoom, runOrder,
                 restaurantData, i, processedRestaurants, recordLocals,
                 errorLog>>

\* RoadReturn without the await on checkShadowStatus: the weather lookup is
\* issued while the oracle call is outstanding.
RoadReturn_NoAwait(r, resp) ==
  /\ Quiescent
  /\ pc[r] = "road"
  /\ LET restaurant == restaurantData[r][i[r] + 1]
         nearestRoad == findNearestRoad(restaurant.lat, restaurant.lng, resp)
         bearing == calculateBearing(restaurant.lat, restaurant.lng,
                                     nearestRoad.lat, nearestRoad.lng)
         before == ShadowBeforeCall(shadowSimulator, hour)
     IN /\ terraceCoords' = [terraceCoords EXCEPT ![r] =
              calculateNewCoords(restaurant.lat, restaurant.lng, bearing,
                                 TERRACE_DISTANCE)]
        /\ now' = [now EXCEPT ![r] = hour]
        /\ pc' = [pc EXCEPT ![r] = "weather"]
        /\ IF before = "call"
           THEN /\ shadowInfo' = [shadowInfo EXCEPT ![r] = "pending"]
                /\ UNCHANGED shadeStatus
           ELSE /\ shadowInfo' = [shadowInfo EXCEPT ![r] = "uncalled"]
                /\ shadeStatus' = [shadeStatus EXCEPT ![r] = before]
  /\ UNCHANGED <<reactState, shadowSimulator, roadCall, toast, clock,
                 started, zoom, runOrder,
                 restaurantData, i, processedRestaurants, weatherResponse,
                 errorLog>>

\* findNearestRoad returned: the terrace is computed and checkShadowStatus is
\* called; it returns at once or calls the oracle.
RoadReturn(r, resp) ==
  /\ Quiescent
  /\ pc[r] = "road"
  /\ LET restaurant == restaurantData[r][i[r] + 1]
         nearestRoad == findNearestRoad(restaurant.lat, restaurant.lng, resp)
         bearing == calculateBearing(restaurant.lat, restaurant.lng,
                                     nearestRoad.lat, nearestRoad.lng)
         before == ShadowBeforeCall(shadowSimulator, hour)
     IN /\ terraceCoords' = [terraceCoords EXCEPT ![r] =
              calculateNewCoords(restaurant.lat, restaurant.lng, bearing,
                                 TERRACE_DISTANCE)]
        /\ now' = [now EXCEPT ![r] = hour]
        /\ IF before = "call"
           THEN /\ pc' = [pc EXCEPT ![r] = "shadow"]
                /\ shadowInfo' = [shadowInfo EXCEPT ![r] = "pending"]
                /\ UNCHANGED shadeStatus
           ELSE /\ pc' = [pc EXCEPT ![r] = "weather"]
                /\ shadowInfo' = [shadowInfo EXCEPT ![r] = "uncalled"]
                /\ shadeStatus' = [shadeStatus EXCEPT ![r] = before]
  /\ UNCHANGED <<reactState, shadowSimulator, roadCall, toast, clock,
                 started, zoom, runOrder,
                 restaurantData, i, processedRestaurants, weatherResponse,
                 errorLog>>

\* The road search of the current record answers.
RoadStep(r) ==
  /\ pc[r] = "road"
  /\ \E resp \in RoadResponses(restaurantData[r][i[r] + 1].lat,
                               restaurantData[r][i[r] + 1].lng) :
       RoadReturn(r, resp)

\* getShadowInfo returned or threw; getWeatherData is called.
ShadowReturn(r, outcome) ==
  /\ Quiescent
  /\ pc[r] = "shadow"
  /\ shadowInfo' = [shadowInfo EXCEPT ![r] = outcome]
  /\ shadeStatus' = [shadeStatus EXCEPT ![r] = ShadowAfterCall(outcome, hour)]
  /\ pc' = [pc EXCEPT ![r] = "weather"]
  /\ UNCHANGED <<reactState, shadowSimulator, roadCall, toast, clock,
                 started, zoom, runOrder,
                 restaurantData, i, processedRestaurants, terraceCoords, now,
                 weatherResponse, errorLog>>

\* getWeatherData returned: the record is pushed and the pacing delay starts.
WeatherReturn(r, resp) ==
  /\ Quiescent
  /\ pc[r] = "weather"
  /\ weatherResponse' = [weatherResponse EXCEPT ![r] = resp]
  /\ processedRestaurants' = [processedRestaurants EXCEPT ![r] =
       Append(@, SuccessRecord(restaurantData[r][i[r] + 1], terraceCoords[r],
                               shadeStatus[r], getWeatherData(resp)))]
  /\ pc' = [pc EXCEPT ![r] = "delay"]
  /\ UNCHANGED <<reactState, shadowSimulator, roadCall, toast, clock,
                 started, zoom, runOrder,
                 restaurantData, i, terraceCoords, shadeStatus, now,
                 shadowInfo, errorLog>>

\* The 200 ms timer fired: i++ and back to the loop test.
DelayElapsed(r) ==
  /\ Quiescent
  /\ pc[r] = "delay"
  /\ i' = [i EXCEPT ![r] = @ + 1]
  /\ pc' = [pc EXCEPT ![r] = "loop"]
  /\ ClearLocals(r)
  /\ UNCHANGED <<reactState, shadowSimulator, roadCall, toast, clock,
                 started, zoom, runOrder,
                 restaurantData, processedRestaurants, errorLog>>

\* StepThrows with a catch branch that pushes nothing.
StepThrows_NoPush(r) ==
  /\ Quiescent
  /\ pc[r] \in {"road", "shadow", "weather"}
  /\ errorLog' = [errorLog EXCEPT ![r] = @ \cup {i[r]}]
  /\ processedCount' = ProgressAt(i[r])
  /\ i' = [i EXCEPT ![r] = @ + 1]
  /\ pc' = [pc EXCEPT ![r] = "loop"]
  /\ ClearLocals(r)
  /\ UNCHANGED <<restaurants, currentZoom, isLoading, totalCount,
                 shadowSimulator, roadCall, toast, clock, started, zoom,
                 restaurantData,
                 processedRestaurants, runOrder>>

\* An exception raised inside the try block before the push (lines 244-260)
\* while the run awaits a step: the catch branch pushes the failure record,
\* sets the counter, and the loop goes on without the pacing delay.
StepThrows(r) ==
  /\ Quiescent
  /\ pc[r] \in {"road", "shadow", "weather"}
  /\ errorLog' = [errorLog EXCEPT ![r] = @ \cup {i[r]}]
  /\ processedRestaurants' = [processedRestaurants EXCEPT ![r] =
       Append(@, FailureRecord(restaurantData[r][i[r] + 1]))]
  /\ processedCount' = ProgressAt(i[r])
  /\ i' = [i EXCEPT ![r] = @ + 1]
  /\ pc' = [pc EXCEPT ![r] = "loop"]
  /\ ClearLocals(r)
  /\ UNCHANGED <<restaurants, currentZoom, isLoading, totalCount,
                 shadowSimulator, roadCall, toast, clock, started, zoom,
                 restaurantData,
                 runOrder>>

\* The wall clock passes an hour boundary.
Tick ==
  /\ Quiescent
  /\ ticks < MaxTicks
  /\ ticks' = ticks + 1
  /\ hour' = (hour + 1) % 24
  /\ UNCHANGED <<reactState, shadowSimulator, roadCall, toast, started, pc,
                 zoom,
                 restaurantData, i, processedRestaurants, recordLocals,
                 errorLog, runOrder>>

\* ------------------------------------------------------- handleMapUpdate
\* ZoomAllowsSearch with > for >=.
ZoomAllowsSearch_Above(z) == z > MIN_ZOOM_LEVEL

\* zoom >= MIN_ZOOM_LEVEL: the branch that searches.
ZoomAllowsSearch(z) == z >= MIN_ZOOM_LEVEL

\* A zoomend/moveend event: handleMapUpdate up to its first await, or to its
\* end when the zoom is too low.
MapUpdate(z) ==
  /\ Quiescent
  /\ started < MaxUpdates
  /\ started' = started + 1
  /\ zoom' = [zoom EXCEPT ![started + 1] = z]
  /\ currentZoom' = z
  /\ IF ZoomAllowsSearch(z)
     THEN /\ pc' = [pc EXCEPT ![started + 1] = "fetch"]
          /\ UNCHANGED restaurants
     ELSE /\ pc' = [pc EXCEPT ![started + 1] = "cleared"]
          /\ restaurants' = <<>>
  /\ UNCHANGED <<isLoading, processedCount, totalCount, shadowSimulator,
                 roadCall, toast, clock, restaurantData, i, processedRestaurants, recordLocals,
                 errorLog, runOrder>>

\* The notifications of a search: toast.error in the catch of fetchRestaurants.
SearchToasts(resp) == IF resp.kind = "ok" THEN <<>> ELSE <<"error">>

\* FetchReturn with the list cleared when the search finds nothing.
FetchReturn_ClearsOnEmpty(r, resp) ==
  /\ Quiescent
  /\ pc[r] = "fetch"
  /\ IF Len(fetchRestaurants(resp)) > 0
     THEN /\ BeginRun(r, fetchRestaurants(resp))
          /\ toast' = [toast EXCEPT ![r] = SearchToasts(resp)]
     ELSE /\ pc' = [pc EXCEPT ![r] = "empty"]
          /\ toast' = [toast EXCEPT ![r] = Append(SearchToasts(resp), "info")]
          /\ restaurants' = <<>>
          /\ UNCHANGED <<isLoading, processedCount, totalCount,
                         restaurantData, i, processedRestaurants,
                         recordLocals, errorLog, runOrder>>
  /\ UNCHANGED <<currentZoom, shadowSimulator, roadCall, clock, started, zoom>>

\* fetchRestaurants returned: a run starts when the list is not empty, and
\* an empty list is only notified.
FetchReturn(r, resp) ==
  /\ Quiescent
  /\ pc[r] = "fetch"
  /\ IF Len(fetchRestaurants(resp)) > 0
     THEN /\ BeginRun(r, fetchRestaurants(resp))
          /\ toast' = [toast EXCEPT ![r] = SearchToasts(resp)]
     ELSE /\ pc' = [pc EXCEPT ![r] = "empty"]
          /\ toast' = [toast EXCEPT ![r] = Append(SearchToasts(resp), "info")]
          /\ UNCHANGED <<restaurants, isLoading, processedCount, totalCount,
                         restaurantData, i, processedRestaurants,
                         recordLocals, errorLog, runOrder>>
  /\ UNCHANGED <<currentZoom, shadowSimulator, roadCall, clock, started, zoom>>

\* ------------------------------------------ a single call of the pipeline
\* processRestaurants called once, with every outcome of every step.
InitRun == InitWith(0..23, {"ready", "null"}) /\ NoRoadCall

NextRun ==
  \/ \E data \in RestaurantLists : started = 0 /\ CallProcessRestaurants(data)
  \/ LoopHead(1)
  \/ RoadStep(1)
  \/ \E outcome \in OracleOutcomes : ShadowReturn(1, outcome)
  \/ \E resp \in WeatherResponses : WeatherReturn(1, resp)
  \/ DelayElapsed(1)
  \/ StepThrows(1)
  \/ Tick

SpecRun == InitRun /\ [][NextRun]_vars

\* ---------------------------------------------------- the mounted component
\* The inputs of the mounted component are a part of those of a single call:
\* the interleavings of several runs are what this specification explores.
\* The helpers catch their own errors, so no step of a run throws here.
StartHours == {20}

SomeRoadResponses(lat, lng) ==
  { [kind |-> "ok", elements |-> <<Way(<<Vertex(lat + 2, lng)>>)>>] }

SomeOracleOutcomes == {"not_in_shadow"}

SomeWeatherResponses == {WeatherOk(20)}

Init == InitWith(StartHours, {"ready"}) /\ NoRoadCall

RoadStepSome(r) ==
  /\ pc[r] = "road"
  /\ \E resp \in SomeRoadResponses(restaurantData[r][i[r] + 1].lat,
                                   restaurantData[r][i[r] + 1].lng) :
       RoadReturn(r, resp)

Next ==
  \/ \E z \in Zooms : MapUpdate(z)
  \/ \E r \in Runs, resp \in OverpassResponses : FetchReturn(r, resp)
  \/ \E r \in Runs : LoopHead(r)
  \/ \E r \in Runs : RoadStepSome(r)
  \/ \E r \in Runs, outcome \in SomeOracleOutcomes : ShadowReturn(r, outcome)
  \/ \E r \in Runs, resp \in SomeWeatherResponses : WeatherReturn(r, resp)
  \/ \E r \in Runs : DelayElapsed(r)

Spec == Init /\ [][Next]_vars

\* ------------------------------------------------- the weather classification
\* One call of the pipeline at noon with every cloud cover the lookup can
\* return.
InitWeather == InitWith({12}, {"ready", "null"}) /\ NoRoadCall

NextWeather ==
  \/ \E data \in RestaurantLists : started = 0 /\ CallProcessRestaurants(data)
  \/ LoopHead(1)
  \/ RoadStepSome(1)
  \/ \E outcome \in SomeOracleOutcomes : ShadowReturn(1, outcome)
  \/ \E resp \in AllWeatherResponses : WeatherReturn(1, resp)
  \/ DelayElapsed(1)

SpecWeather == InitWeather /\ [][NextWeather]_vars

\* ------------------------------------------------------------- termination
\* One call of the pipeline in which every awaited step and every pacing
\* delay eventually returns.
InitLive == InitWith({8, 20}, {"ready", "null"}) /\ NoRoadCall

RunStep ==
  \/ LoopHead(1)
  \/ RoadStep(1)
  \/ \E outcome \in OracleOutcomes : ShadowReturn(1, outcome)
  \/ \E resp \in WeatherResponses : WeatherReturn(1, resp)
  \/ DelayElapsed(1)

NextLive ==
  \/ \E data \in RestaurantLists : started = 0 /\ CallProcessRestaurants(data)
  \/ RunStep
  \/ StepThrows(1)

LiveRun == InitLive /\ [][NextLive]_vars /\ WF_vars(RunStep)

\* ------------------------------------------------- findNearestRoad alone
\* findNearestRoad called once on every response of at most MaxWays ways of
\* at most MaxVertices vertices each.
SeqsUpTo(S, n) == UNION {[1..k -> S] : k \in 0..n}

\* Two vertices at the same distance from (lat, lng) and one farther away.
RoadVertices(lat, lng) ==
  {Vertex(lat + 1, lng), Vertex(lat, lng - 1), Vertex(lat + 1, lng + 1)}

BareWay == [hasGeometry |-> FALSE, geometry |-> <<>>]

Ways(lat, lng) ==
  {Way(g) : g \in SeqsUpTo(RoadVertices(lat, lng), MaxVertices)} \cup {BareWay}

RoadFailures ==
  {[kind |-> k, elements |-> <<>>] : k \in {"network_error", "not_ok"}}

RoadLocations == {Point(0, 0), Point(Restaurant(1).lat, Restaurant(1).lng)}

RoadQuery(at, resp) == <<[lat |-> at.lat, lng |-> at.lng, resp |-> resp]>>

InitRoad ==
  /\ InitWith({12}, {"ready"})
  /\ closestPoint = <<>>
  /\ \E at \in RoadLocations :
       \/ \E e \in SeqsUpTo(Ways(at.lat, at.lng), MaxWays) :
            roadQuery = RoadQuery(at, [kind |-> "ok", elements |-> e])
       \/ \E resp \in RoadFailures : roadQuery = RoadQuery(at, resp)

CallFindNearestRoad ==
  /\ Len(roadQuery) > 0
  /\ closestPoint = <<>>
  /\ closestPoint' =
       <<findNearestRoad(roadQuery[1].lat, roadQuery[1].lng, roadQuery[1].resp)>>
  /\ UNCHANGED <<reactState, shadowSimulator, clock, started, pc, zoom,
                 restaurantData, i, processedRestaurants, recordLocals,
                 errorLog, runOrder, toast, roadQuery>>

NextRoad == CallFindNearestRoad

SpecRoad == InitRoad /\ [][NextRoad]_vars

\* ================================================================ claims
SameRestaurant(rec, restaurant) ==
  /\ rec.id = restaurant.id
  /\ rec.lat = restaurant.lat
  /\ rec.lng = restaurant.lng
  /\ rec.name = restaurant.name

SunnyIffClear(rec) ==
  (rec.sunnyStatus = "sunny") <=>
    (rec.shadeStatus = "no_shade" /\ rec.cloudStatus = "not_cloudy")

\* C1: a completed run has published exactly one record per input POI, the
\* k-th record carrying the id, location and name of the k-th input, whatever
\* the road, shadow and weather steps did.
C1_OneRecordPerInput ==
  pc[1] = "done" =>
    /\ Len(restaurants) = Len(restaurantData[1])
    /\ \A k \in 1..Len(restaurants) :
         SameRestaurant(restaurants[k], restaurantData[1][k])

C1_Witness ==
  /\ pc[1] = "done"
  /\ Len(restaurants) = 2
  /\ errorLog[1] = {0}
  /\ restaurants[1].id # restaurants[2].id
  /\ restaurants[2].terraceCoords.off # <<>>

\* C2 as stated: every record of a published list is sunny exactly when it is
\* unshaded and not cloudy, the records of the failure path included.
C2_AllRecordsSunnyIffClear ==
  \A k \in 1..Len(restaurants) : SunnyIffClear(restaurants[k])

\* C2 as amended: every record the try branch appended is sunny exactly when
\* it is unshaded and not cloudy; every record the catch branch appended is
\* no_shade, not_cloudy and not_sunny.
C2_SuccessRecordsSunnyIffClear ==
  \A k \in 1..Len(processedRestaurants[1]) :
    LET rec == processedRestaurants[1][k]
    IN IF (k - 1) \in errorLog[1]
       THEN /\ rec.shadeStatus = "no_shade"
            /\ rec.cloudStatus = "not_cloudy"
            /\ rec.sunnyStatus = "not_sunny"
       ELSE SunnyIffClear(rec)

C2_Witness ==
  /\ pc[1] = "done"
  /\ Len(restaurants) = 2
  /\ errorLog[1] = {1}
  /\ restaurants[1].sunnyStatus = "sunny"
  /\ restaurants[2].sunnyStatus = "not_sunny"

\* C3: when checkShadowStatus is called at an hour h < 6 or h > 20 it returns
\* shade and calls no oracle, whatever the state of the shadow simulator.
C3_NightIsShade ==
  \A r \in Runs :
    (pc[r] = "weather" /\ (now[r] < 6 \/ now[r] > 20)) =>
      (shadeStatus[r] = "shade" /\ shadowInfo[r] = "uncalled")

\* C4: at a daytime hour h (6 <= h <= 20), when the oracle call throws, the
\* simulator is not initialized, or the result is empty, checkShadowStatus
\* returns shade if h < 9 or h > 17 and no_shade otherwise.
C4_OracleFailureGivesFallback ==
  \A r \in Runs :
    ( /\ pc[r] = "weather"
      /\ now[r] >= 6 /\ now[r] <= 20
      /\ (shadowSimulator = "null" \/ shadowInfo[r] \in {"throws", "empty"}) )
    => shadeStatus[r] = (IF now[r] < 9 \/ now[r] > 17 THEN "shade"
                         ELSE "no_shade")

\* C5: the record pushed after a weather response with cloud cover c in 0..100
\* is cloudy exactly when c > 20, and not_cloudy after a failed lookup (not-OK
\* response, thrown error, missing value).
C5_CloudyIffOver20 ==
  pc[1] = "delay" =>
    LET rec == processedRestaurants[1][Len(processedRestaurants[1])]
        resp == weatherResponse[1]
    IN IF resp.kind = "ok" /\ resp.hasValue
       THEN (rec.cloudStatus = "cloudy") <=> (resp.cloudcover > 20)
       ELSE rec.cloudStatus = "not_cloudy"

C5_Witness ==
  /\ pc[1] = "delay"
  /\ weatherResponse[1] = WeatherOk(20)
  /\ processedRestaurants[1][Len(processedRestaurants[1])].cloudStatus
       = "not_cloudy"
  /\ Len(processedRestaurants[1]) = 2
  /\ processedRestaurants[1][1].cloudStatus = "cloudy"

\* C6: when a step of record i throws, the run goes on: exactly one record for
\* POI i is appended, with the POI's own location as terrace, no_shade,
\* not_cloudy and not_sunny, the counter is i + 1 and the loop is at record
\* i + 1.
C6_FailureIsolated ==
  [][ errorLog'[1] # errorLog[1] =>
        LET restaurant == restaurantData[1][i[1] + 1]
        IN /\ processedRestaurants'[1] =
                Append(processedRestaurants[1],
                       [id |-> restaurant.id, lat |-> restaurant.lat,
                        lng |-> restaurant.lng, name |-> restaurant.name,
                        terraceCoords |->
                          [lat |-> restaurant.lat, lng |-> restaurant.lng,
                           off |-> <<>>],
                        shadeStatus |-> "no_shade",
                        cloudStatus |-> "not_cloudy",
                        sunnyStatus |-> "not_sunny"])
           /\ processedCount' = i[1] + 1
           /\ i'[1] = i[1] + 1
           /\ pc'[1] = "loop"
           /\ restaurantData'[1] = restaurantData[1] ]_vars

C6_Witness ==
  /\ pc[1] = "road"
  /\ i[1] = 1
  /\ errorLog[1] = {0}
  /\ Len(processedRestaurants[1]) = 1
  /\ processedRestaurants[1][1].sunnyStatus = "not_sunny"
  /\ processedRestaurants[1][1].terraceCoords.off = <<>>
  /\ processedCount = 2

NoRunInFlight == \A r \in Runs : pc[r] \notin InFlight

\* C7: when every awaited step returns, a started run completes; a completed
\* run has published its list (the empty list for no input), isLoading is
\* false and the progress is (0, 0); and whenever no run is in flight
\* isLoading is false and the progress is (0, 0).
C7_RunCompletes ==
  /\ [](pc[1] \in InFlight => <>(pc[1] = "done"))
  /\ [](pc[1] = "done" =>
          /\ restaurants = processedRestaurants[1]
          /\ Len(restaurants) = Len(restaurantData[1]))
  /\ [](NoRunInFlight =>
          (~isLoading /\ processedCount = 0 /\ totalCount = 0))

C7_Witness ==
  /\ pc[1] = "done"
  /\ Len(restaurantData[1]) = 2
  /\ Len(restaurants) = 2
  /\ errorLog[1] # {}
  /\ ~isLoading

C7_WitnessEmptyRun ==
  /\ pc[1] = "done"
  /\ restaurantData[1] = <<>>
  /\ restaurants = <<>>

\* C8: once every run has completed, the published list is the result of the
\* run that started last (no map update cleared the list in between).
C8_LatestRunWins ==
  ( /\ runOrder # <<>>
    /\ \A r \in Runs : pc[r] \in {"idle", "done", "empty"} )
  => restaurants = processedRestaurants[runOrder[Len(runOrder)]]

\* C9: a map update at a zoom below 14 searches nothing, starts no run and
\* empties the published list; a map update at zoom 14 or more issues the POI
\* search, and a run starts exactly when the search returns a POI.
C9_ZoomGate ==
  [][ \A r \in Runs :
        /\ (pc[r] = "idle" /\ pc'[r] # "idle") =>
             IF zoom'[r] < 14
             THEN /\ pc'[r] = "cleared"
                  /\ restaurants' = <<>>
                  /\ runOrder' = runOrder
                  /\ <<isLoading, processedCount, totalCount>>'
                       = <<isLoading, processedCount, totalCount>>
             ELSE /\ pc'[r] = "fetch"
                  /\ restaurants' = restaurants
        /\ (pc[r] = "fetch" /\ pc'[r] # "fetch") =>
             IF Len(restaurantData'[r]) > 0
             THEN pc'[r] = "loop" /\ runOrder' = Append(runOrder, r)
             ELSE pc'[r] = "empty" /\ runOrder' = runOrder
        /\ (pc[r] \in {"cleared", "empty"}) => pc'[r] = pc[r]
        /\ (pc[r] \notin InFlight /\ pc'[r] \in InFlight) => pc[r] = "fetch"
    ]_vars

C9_Witness ==
  \E r, q \in Runs :
    /\ pc[r] = "cleared" /\ zoom[r] = 13 /\ restaurants = <<>>
    /\ pc[q] \in Awaiting /\ zoom[q] = 14

\* C10: during a single run the counter starts at 0, never decreases and never
\* exceeds the number N of input POIs, and totalCount stays N, until the reset
\* at completion.
C10_ProgressMonotone ==
  [][ /\ (pc[1] = "idle" /\ pc'[1] \in InFlight) =>
           (processedCount' = 0 /\ totalCount' = Len(restaurantData'[1]))
      /\ (pc[1] \in InFlight /\ pc'[1] \in InFlight) =>
           /\ processedCount' >= processedCount
           /\ processedCount' <= Len(restaurantData[1])
           /\ totalCount' = Len(restaurantData[1])
           /\ totalCount = Len(restaurantData[1]) ]_vars

C10_Witness ==
  /\ pc[1] = "delay"
  /\ i[1] = 1
  /\ Len(restaurantData[1]) = 2
  /\ processedCount = 2
  /\ totalCount = 2

\* C11: the loop reaches the next record, whose road search it issues in the
\* same segment, only when the pacing delay of the previous record elapsed,
\* whether that record succeeded or failed.
C11_DelayBeforeNextRecord ==
  [][ \A r \in Runs :
        ( /\ pc[r] # "loop"
          /\ pc'[r] = "loop"
          /\ i'[r] > 0
          /\ i'[r] < Len(restaurantData'[r]) )
        => pc[r] = "delay" ]_vars

\* C12: the steps of a run are strictly sequential: the road search of record
\* i is issued only when records 0..i-1 are appended and no other call of the
\* run is outstanding, the shadow check only after the road search returned,
\* the weather lookup only after the shadow check returned, and the record is
\* appended only after the weather lookup returned.
C12_StepsSequential ==
  [][ \A r \in Runs :
        /\ pc'[r] = "road" =>
             /\ pc[r] \in {"loop", "road"}
             /\ Len(processedRestaurants'[r]) = i'[r]
             /\ shadowInfo'[r] = "none"
             /\ shadeStatus'[r] = "none"
             /\ weatherResponse'[r].kind = "none"
        /\ pc'[r] = "shadow" =>
             /\ pc[r] \in {"road", "shadow"}
             /\ Len(processedRestaurants'[r]) = i'[r]
             /\ shadowInfo'[r] = "pending"
             /\ shadeStatus'[r] = "none"
             /\ weatherResponse'[r].kind = "none"
        /\ pc'[r] = "weather" =>
             /\ pc[r] \in {"road", "shadow", "weather"}
             /\ (pc[r] = "road" => shadowInfo'[r] = "uncalled")
             /\ Len(processedRestaurants'[r]) = i'[r]
             /\ shadowInfo'[r] \notin {"none", "pending"}
             /\ shadeStatus'[r] \in {"shade", "no_shade"}
             /\ weatherResponse'[r].kind = "none"
        /\ pc'[r] = "delay" =>
             /\ pc[r] \in {"weather", "delay"}
             /\ Len(processedRestaurants'[r]) = i'[r] + 1
             /\ weatherResponse'[r].kind # "none"
        /\ (pc[r] \in InFlight /\ pc'[r] \in InFlight) =>
             /\ i'[r] \in {i[r], i[r] + 1}
             /\ (i'[r] = i[r] + 1 =>
                   Len(processedRestaurants'[r]) = i[r] + 1)
    ]_vars

C12_Witness ==
  /\ pc[1] = "weather"
  /\ i[1] = 1
  /\ Len(processedRestaurants[1]) = 1
  /\ shadowInfo[1] = "in_shadow"
  /\ errorLog[1] = {}

\* C13: at every point of a single run the counter equals the number of
\* records the run has appended.
C13_CounterIsAppended ==
  pc[1] \in InFlight => processedCount = Len(processedRestaurants[1])

\* C15: while a run is in flight, a step of another handler never changes
\* the processedCount or totalCount that the run's progress indicator shows.
C15_ProgressOwnedByRun ==
  [][ \A r \in Runs :
        (pc[r] \in InFlight /\ pc'[r] = pc[r]) =>
          (processedCount' = processedCount /\ totalCount' = totalCount)
    ]_vars

\* C16: the list a run publishes holds exactly the records of that run's own
\* input POIs, in input order, for every interleaving of overlapping runs.
C16_PublishedListIsOwn ==
  [][ \A r \in Runs :
        (pc[r] \in InFlight /\ pc'[r] = "done") =>
          /\ Len(restaurants') = Len(restaurantData[r])
          /\ \A k \in 1..Len(restaurants') :
               SameRestaurant(restaurants'[k], restaurantData[r][k])
    ]_vars

C16_Witness ==
  \E r, q \in Runs :
    /\ pc[r] = "done"
    /\ pc[q] \in Awaiting
    /\ runOrder = <<q, r>>
    /\ Len(processedRestaurants[q]) > 0
    /\ restaurantData[q][1].id # restaurantData[r][1].id
    /\ restaurants = processedRestaurants[r]

\* C17: isLoading is true whenever a run is in flight.
C17_LoadingWhileInFlight ==
  (\E r \in Runs : pc[r] \in InFlight) => isLoading

\* C18: 0 <= processedCount <= totalCount in every reachable state.
C18_ProgressWithinTotal ==
  0 <= processedCount /\ processedCount <= totalCount

\* C19: while the latest map update saw a zoom below 14 the published list
\* is empty.
C19_EmptyWhileZoomedOut ==
  (started > 0 /\ zoom[started] < 14) => restaurants = <<>>

\* The vertices of the ways of a response, in response order.
RECURSIVE AllVertices(_)
AllVertices(elements) ==
  IF Len(elements) = 0 THEN <<>>
  ELSE (IF Head(elements).hasGeometry THEN Head(elements).geometry ELSE <<>>)
       \o AllVertices(Tail(elements))

\* C14: findNearestRoad returns the input location when the search fails or
\* no returned road has a vertex; otherwise the vertex at minimal distance,
\* and among those at minimal distance the first in response order.
C14_NearestVertex ==
  Len(closestPoint) > 0 =>
    LET q == roadQuery[1]
        vs == IF q.resp.kind = "ok" THEN AllVertices(q.resp.elements) ELSE <<>>
        D(k) == Distance2(vs[k], q.lat, q.lng)
    IN IF Len(vs) = 0
       THEN closestPoint[1] = Point(q.lat, q.lng)
       ELSE \E k \in 1..Len(vs) :
              /\ closestPoint[1] = Point(vs[k].lat, vs[k].lon)
              /\ \A j \in 1..Len(vs) : D(k) <= D(j)
              /\ \A j \in 1..(k - 1) : D(k) < D(j)

\* A farther vertex first, then two different vertices at the minimal
\* distance in two ways.
C14_Witness ==
  /\ Len(closestPoint) > 0
  /\ roadQuery[1].resp.kind = "ok"
  /\ Len(roadQuery[1].resp.elements) = 2
  /\ LET q == roadQuery[1]
         vs == AllVertices(q.resp.elements)
     IN /\ Len(vs) = 3
        /\ Len(q.resp.elements[1].geometry) = 2
        /\ Distance2(vs[1], q.lat, q.lng) > Distance2(vs[2], q.lat, q.lng)
        /\ Distance2(vs[2], q.lat, q.lng) = Distance2(vs[3], q.lat, q.lng)
        /\ vs[2] # vs[3]
        /\ closestPoint[1] = Point(vs[2].lat, vs[2].lon)

\* C20: a map update whose search fails or finds nothing starts no run and
\* leaves restaurants, isLoading, processedCount and totalCount as they
\* were; a failed search ends the handler as an empty one does.
C20_EmptySearchIsInert ==
  [][ \A r \in Runs :
        /\ (pc[r] = "fetch" /\ pc'[r] = "empty") =>
             /\ restaurants' = restaurants
             /\ isLoading' = isLoading
             /\ processedCount' = processedCount
             /\ totalCount' = totalCount
             /\ runOrder' = runOrder
             /\ restaurantData'[r] = <<>>
        /\ (pc[r] = "fetch" /\ pc'[r] # "fetch") =>
             ( (Len(toast'[r]) > 0 /\ toast'[r][1] = "error")
                 => pc'[r] = "empty" )
        /\ (pc[r] = "fetch" /\ pc'[r] \in InFlight) =>
             Len(restaurantData'[r]) > 0
    ]_vars

C20_Witness ==
  \E r \in Runs :
    /\ pc[r] = "empty"
    /\ toast[r] = <<"error", "info">>
    /\ restaurants # <<>>

====
